---- MODULE Spec2Model ----
(***************************************************************************)
(* Model of src/src/index.mjs: the SSE notification endpoint               *)
(* (GET /notifications/:userId), the like-creation endpoint                *)
(* (POST /posts/:postId/like), the post-creation endpoint (POST /posts)    *)
(* and the process-wide `clients` Map that connects them.                  *)
(*                                                                         *)
(* Node runs every handler on one event loop: a handler runs without       *)
(* interruption until it returns or reaches an `await`.  Each action below *)
(* is one such uninterrupted run.                                          *)
(***************************************************************************)
EXTENDS Integers, Sequences, FiniteSets

\* ---- bounds -------------------------------------------------------------
\* user ids the clients use
MaxUser == 2
\* HTTP requests the server accepts in one run, over all three endpoints
MaxHttp == 3

Users == 1..MaxUser
Reqs == 1..MaxHttp

\* `undefined` where the source expects a response object
None == 0

\* `null` where the source expects a row of a table
Null == [id |-> 0]

VARIABLES
    clients,   \* the Map of line 20, as its set of [key, value] entries
    conns,     \* every response stream opened so far; its index is its identity
    posts,     \* post table: index = autoincrement id, [authorId]
    likes,     \* like table: set of rows [id, userId, postId]
    handler,   \* per like-creation request: position and locals of the async handler
    sent,      \* per like-creation request: the responses sent on `res`, in order
    writes,    \* every authorClient.write call made, in order
    accepted,  \* the number of HTTP requests accepted so far, over the three endpoints
    seen       \* the highest user id a request has carried so far

vars == <<clients, conns, posts, likes, handler, sent, writes, accepted, seen>>

\* the ids the next request can carry: the ones seen and the first one not
\* yet seen (user ids are interchangeable, so the users are numbered in their
\* order of appearance)
UserIds == {u \in Users : u <= seen + 1}

Max(a, b) == IF a >= b THEN a ELSE b

\* one more HTTP request, made by or about user u, is accepted
Accept(u) ==
    /\ accepted < MaxHttp
    /\ accepted' = accepted + 1
    /\ seen' = Max(seen, u)

\* the post ids a request can name: the existing ones and the first absent one
PostIds == 1..(Len(posts) + 1)

\* ---- the JavaScript Map of line 20 ---------------------------------------
MapHas(m, k) == \E e \in m : e.key = k

MapGet(m, k) == IF MapHas(m, k) THEN (CHOOSE e \in m : e.key = k).value ELSE None

\* a Map.set that keeps the prior entry of the key next to the new one
MapSetKeepsOld(m, k, v) == m \cup {[key |-> k, value |-> v]}

\* a Map.set that leaves an existing entry of the key alone
MapSetIfAbsent(m, k, v) == IF MapHas(m, k) THEN m ELSE m \cup {[key |-> k, value |-> v]}

MapSet(m, k, v) == {e \in m : e.key # k} \cup {[key |-> k, value |-> v]}

\* a Map.delete that empties the map
MapDeleteAll(m, k) == {}

\* a Map.delete that removes nothing
MapDeleteNoop(m, k) == m

MapDelete(m, k) == {e \in m : e.key # k}

\* ---- streams --------------------------------------------------------------
Streams == 1..Len(conns)

\* the stream most recently opened for user u (None when u never opened one)
LatestStream(u) ==
    LET mine == {c \in Streams : conns[c].userId = u}
    IN IF mine = {} THEN None ELSE CHOOSE c \in mine : \A d \in mine : d <= c

\* GET /notifications/:userId, lines 36-54: the response object is stored
\* under the user id and a close listener is attached to the request.
OpenStream(u) ==
    /\ Accept(u)
    /\ conns' = Append(conns, [userId |-> u, state |-> "open"])
    /\ clients' = MapSet(clients, u, Len(conns) + 1)
    /\ UNCHANGED <<posts, likes, handler, sent, writes>>

\* The transport of stream c goes away (client disconnect, network failure);
\* the "close" event of its request is now pending on the event loop.
TransportClose(c) ==
    /\ conns[c].state = "open"
    /\ conns' = [conns EXCEPT ![c].state = "closing"]
    /\ UNCHANGED <<clients, posts, likes, handler, sent, writes, accepted, seen>>

\* req.on("close", ...), lines 51-53, for stream c.
HandleClose(c) ==
    /\ conns[c].state = "closing"
    /\ conns' = [conns EXCEPT ![c].state = "handled"]
    /\ clients' = MapDelete(clients, conns[c].userId)
    /\ UNCHANGED <<posts, likes, handler, sent, writes, accepted, seen>>

\* ---- the stores (Prisma) -------------------------------------------------
\* POST /posts, lines 130-145: a new row with the next autoincrement id.
CreatePost(a) ==
    /\ Accept(a)
    /\ posts' = Append(posts, [authorId |-> a])
    /\ UNCHANGED <<clients, conns, likes, handler, sent, writes>>

\* a post lookup that answers with a row for every id
FindPostAlways(p) ==
    [id |-> p, authorId |-> IF p \in 1..Len(posts) THEN posts[p].authorId ELSE 1]

\* prisma.post.findUnique({where: {id}}), lines 66-69
FindPost(p) == IF p \in 1..Len(posts) THEN [id |-> p, authorId |-> posts[p].authorId] ELSE Null

LikeRows(u, p) == {l \in likes : l.userId = u /\ l.postId = p}

\* a like lookup with the two halves of the key exchanged
FindLikeSwapped(u, p) ==
    IF LikeRows(p, u) = {} THEN Null ELSE CHOOSE l \in LikeRows(p, u) : TRUE

\* prisma.like.findUnique({where: {userId_postId}}), lines 78-85
FindLike(u, p) == IF LikeRows(u, p) = {} THEN Null ELSE CHOOSE l \in LikeRows(u, p) : TRUE

\* a like table without the compound unique key
NoUniqueKey(u, p) == FALSE

\* the compound unique key userId_postId of the like table rejects a second
\* row for the pair
UniqueViolation(u, p) == LikeRows(u, p) # {}

\* an insert with the two columns exchanged
NewLikeSwapped(u, p) == [id |-> Cardinality(likes) + 1, userId |-> p, postId |-> u]

\* the row prisma.like.create inserts, lines 94-99
NewLike(u, p) == [id |-> Cardinality(likes) + 1, userId |-> u, postId |-> p]

\* ---- POST /posts/:postId/like, lines 57-127 --------------------------------
Idle == [pc |-> "idle", postId |-> None, userId |-> None, post |-> Null, like |-> Null]

\* the handler has returned: its locals are gone
Returned == [pc |-> "done", postId |-> None, userId |-> None, post |-> Null, like |-> Null]

Response(status, body) == [status |-> status, body |-> body]

\* res.status(..).json(..) / res.json(..) on the request's own response
Send(r, status, body) == sent' = [sent EXCEPT ![r] = Append(@, Response(status, body))]

\* a catch block that logs the error and sends no response
CatchSilent(r) ==
    /\ handler' = [handler EXCEPT ![r] = Returned]
    /\ UNCHANGED sent

\* the catch block, lines 123-126
Catch(r) ==
    /\ Send(r, 500, [message |-> "server error"])
    /\ handler' = [handler EXCEPT ![r] = Returned]

\* lines 59-66: the request arrives and the handler suspends on the post lookup
\* (requests are numbered in their order of arrival)
LikeRequest(r, u, p) ==
    /\ handler[r].pc = "idle"
    /\ \A q \in Reqs : q < r => handler[q].pc # "idle"
    /\ Accept(u)
    /\ handler' = [handler EXCEPT ![r] = [@ EXCEPT !.pc = "findPost", !.postId = p, !.userId = u]]
    /\ UNCHANGED <<clients, conns, posts, likes, sent, writes>>

\* lines 66-78: the post lookup settles; 404 when there is no such post,
\* otherwise the handler suspends on the like lookup
PostLookupReturns(r, ok) ==
    /\ handler[r].pc = "findPost"
    /\ IF ~ok
       THEN Catch(r)
       ELSE LET post == FindPost(handler[r].postId) IN
            IF post = Null
            THEN /\ Send(r, 404, [message |-> "post not found"])
                 /\ handler' = [handler EXCEPT ![r] = Returned]
            ELSE /\ handler' = [handler EXCEPT ![r] = [@ EXCEPT !.pc = "findLike", !.post = post]]
                 /\ UNCHANGED sent
    /\ UNCHANGED <<clients, conns, posts, likes, writes, accepted, seen>>

\* lines 78-94: the like lookup settles; 400 when the like exists, otherwise
\* the handler suspends on the insert
LikeLookupReturns(r, ok) ==
    /\ handler[r].pc = "findLike"
    /\ IF ~ok
       THEN Catch(r)
       ELSE LET existingLike == FindLike(handler[r].userId, handler[r].postId) IN
            IF existingLike # Null
            THEN /\ Send(r, 400, [message |-> "already liked"])
                 /\ handler' = [handler EXCEPT ![r] = Returned]
            ELSE /\ handler' = [handler EXCEPT ![r].pc = "create"]
                 /\ UNCHANGED sent
    /\ UNCHANGED <<clients, conns, posts, likes, writes, accepted, seen>>

\* lines 94-99: the store executes the insert; a rejected insert throws into
\* the catch block, an accepted one leaves the handler ready to resume
InsertExecutes(r, ok) ==
    /\ handler[r].pc = "create"
    /\ IF ~ok \/ UniqueViolation(handler[r].userId, handler[r].postId)
       THEN /\ Catch(r)
            /\ UNCHANGED likes
       ELSE LET like == NewLike(handler[r].userId, handler[r].postId) IN
            /\ likes' = likes \cup {like}
            /\ handler' = [handler EXCEPT ![r] = [@ EXCEPT !.pc = "notify", !.like = like]]
            /\ UNCHANGED sent
    /\ UNCHANGED <<clients, conns, posts, writes, accepted, seen>>

\* the frame of lines 113-118: "data: " + JSON.stringify({type, message,
\* postId, userId}) + "\n\n"; the message text names userId, then postId
FrameSwapped(userId, postId) ==
    [prefix |-> "data: ", type |-> "like", message |-> <<postId, userId>>,
     postId |-> userId, userId |-> postId, suffix |-> "\n\n"]

Frame(userId, postId) ==
    [prefix |-> "data: ", type |-> "like", message |-> <<userId, postId>>,
     postId |-> postId, userId |-> userId, suffix |-> "\n\n"]

\* a guard that writes whether or not a client was found
AlwaysWrite(authorClient) == TRUE

\* line 111: if (authorClient)
ShouldWrite(authorClient) == authorClient # None

\* a write that throws when the stream is no longer open
WriteThrowsOnClosed(c) == c \notin Streams \/ conns[c].state # "open"

\* line 112: calling .write on undefined throws a TypeError; on a response
\* object write() reports a destroyed stream through its return value and
\* never throws for a string chunk
WriteThrows(c) == c \notin Streams

\* the frame reaches the client only while the stream is open
Delivered(c) == conns[c].state = "open"

\* a lookup under the id of the user who liked
RecipientIsLiker(r) == handler[r].userId

\* line 109: the registry is read under the id of the post's author
Recipient(r) == handler[r].post.authorId

\* a write that puts the frame ahead of the ones written before
WriteFirst(log, w) == <<w>> \o log

\* line 112: write() queues the frame behind the ones written before
SocketWrite(log, w) == Append(log, w)

\* lines 101-122: the handler resumes after the insert, looks the author's
\* client up, writes the frame to it and answers with the like
Notify(r) ==
    /\ handler[r].pc = "notify"
    /\ LET authorClient == MapGet(clients, Recipient(r)) IN
       /\ IF ShouldWrite(authorClient) /\ WriteThrows(authorClient)
          THEN /\ Catch(r)
               /\ UNCHANGED writes
          ELSE /\ handler' = [handler EXCEPT ![r] = Returned]
               /\ Send(r, 200, handler[r].like)
               /\ writes' = IF ShouldWrite(authorClient)
                            THEN SocketWrite(writes, [conn |-> authorClient, req |-> r,
                                                      frame |-> Frame(handler[r].userId, handler[r].postId),
                                                      delivered |-> Delivered(authorClient)])
                            ELSE writes
    /\ UNCHANGED <<clients, conns, posts, likes, accepted, seen>>

\* ---- specification --------------------------------------------------------
\* The server has just started: no stream, no request.  The database outlives
\* the process; it holds one post, written by user 1, and no like.
Init ==
    /\ clients = {}
    /\ conns = <<>>
    /\ posts = <<[authorId |-> 1]>>
    /\ likes = {}
    /\ handler = [r \in Reqs |-> Idle]
    /\ sent = [r \in Reqs |-> <<>>]
    /\ writes = <<>>
    /\ accepted = 0
    /\ seen = 1

Next ==
    \/ \E u \in UserIds : OpenStream(u)
    \/ \E c \in Streams : TransportClose(c)
    \/ \E c \in Streams : HandleClose(c)
    \/ \E a \in UserIds : CreatePost(a)
    \/ \E r \in Reqs, u \in UserIds, p \in PostIds : LikeRequest(r, u, p)
    \/ \E r \in Reqs, ok \in BOOLEAN : PostLookupReturns(r, ok)
    \/ \E r \in Reqs, ok \in BOOLEAN : LikeLookupReturns(r, ok)
    \/ \E r \in Reqs, ok \in BOOLEAN : InsertExecutes(r, ok)
    \/ \E r \in Reqs : Notify(r)

Spec == Init /\ [][Next]_vars

\* the close listener of stream c, for any c a run can open
CloseListener(c) == c \in Streams /\ HandleClose(c)

\* the next step of the handler of request r, whatever the store answers
HandlerStep(r) ==
    \/ \E ok \in BOOLEAN : PostLookupReturns(r, ok)
    \/ \E ok \in BOOLEAN : LikeLookupReturns(r, ok)
    \/ \E ok \in BOOLEAN : InsertExecutes(r, ok)
    \/ Notify(r)

\* The event loop does not stop while a callback is pending: some pending
\* "close" event is delivered to its listener, and some handler whose store
\* call has settled resumes.
Fairness ==
    /\ WF_vars(\E c \in Reqs : CloseListener(c))
    /\ WF_vars(\E r \in Reqs : HandlerStep(r))

FairSpec == Spec /\ Fairness

\* ---- properties -----------------------------------------------------------
Status(r) == sent[r][Len(sent[r])].status

\* the step in which the close listener of stream c runs
CloseStep(c) == conns[c].state = "closing" /\ conns'[c].state = "handled"

\* the step in which request r resumes after its insert (lines 101-122)
NotifyStep(r) == handler[r].pc = "notify" /\ handler'[r].pc = "done"

\* the write call a step appends to the log
NewWrite == writes'[Len(writes')]

OneWriteAppended == Len(writes') = Len(writes) + 1 /\ SubSeq(writes', 1, Len(writes)) = writes

\* C1: the close of a stream of user U removes U's registry entry if and only
\* if the stream registered for U at that moment is the closing one; so the
\* late close of an earlier stream leaves a newer stream's entry in place.
C1_StaleUnregisterProtection ==
    [][\A c \in Streams :
          CloseStep(c) =>
              ((MapHas(clients, conns[c].userId) /\ ~MapHas(clients', conns[c].userId))
                  <=> MapGet(clients, conns[c].userId) = c)]_vars

\* C2: the registry holds at most one entry per user id, and an entry for U
\* always names the stream most recently opened for U.
C2_OneLatestEntryPerUser ==
    /\ \A e1 \in clients : \A e2 \in clients : e1.key = e2.key => e1 = e2
    /\ \A e \in clients : e.value = LatestStream(e.key)

\* C2 witness: U opened two streams and the registry names the second.
C2_Witness ==
    \E c \in Streams : \E d \in Streams :
        /\ c < d
        /\ conns[c].userId = conns[d].userId
        /\ [key |-> conns[d].userId, value |-> d] \in clients

\* C3: when the handler of a like by B on post P of author A resumes after the
\* insert and A has a registry entry, that step makes exactly one write, to the
\* stream registered for A, of a frame with type "like", postId P and userId B,
\* and answers 200; no other step of any handler writes a frame.
C3_OneLikeFrameToAuthor ==
    [][/\ \A r \in Reqs :
            (NotifyStep(r) /\ MapHas(clients, handler[r].post.authorId)) =>
                /\ OneWriteAppended
                /\ [key |-> handler[r].post.authorId, value |-> NewWrite.conn] \in clients
                /\ NewWrite.req = r
                /\ NewWrite.frame.type = "like"
                /\ NewWrite.frame.postId = handler[r].postId
                /\ NewWrite.frame.userId = handler[r].userId
                /\ Status(r)' = 200
       /\ (\A r \in Reqs : ~NotifyStep(r)) => writes' = writes]_vars

\* C3 witness: a frame about a like by B on a post of another user A reached
\* A's open stream, and B's request was answered 200.
C3_Witness ==
    \E i \in 1..Len(writes) :
        /\ writes[i].delivered
        /\ conns[writes[i].conn].userId = posts[writes[i].frame.postId].authorId
        /\ writes[i].frame.userId # conns[writes[i].conn].userId
        /\ sent[writes[i].req] # <<>>
        /\ Status(writes[i].req) = 200

\* C4: the like table never holds two rows for the same (userId, postId) pair,
\* however the store round trips of concurrent requests interleave.
C4_OneLikePerPair ==
    \A l1 \in likes : \A l2 \in likes :
        (l1.userId = l2.userId /\ l1.postId = l2.postId) => l1 = l2

\* C4 witness: two requests for the same pair raced: one has passed the
\* existing-like check and waits for its insert, the other has inserted.
C4_Witness ==
    \E r1 \in Reqs : \E r2 \in Reqs :
        /\ handler[r1].pc = "create"
        /\ handler[r2].pc = "notify"
        /\ handler[r1].userId = handler[r2].userId
        /\ handler[r1].postId = handler[r2].postId

\* C5: while a like by U on P exists (like rows are never removed, so from the
\* arrival of the request on), a request for (U, P) whose lookups the store
\* answers passes the post lookup, is answered 400 at the like lookup, and
\* neither step adds a like row or writes a frame.
C5_DuplicateLikeConflict ==
    [][/\ likes \subseteq likes'
       /\ \A r \in Reqs :
            LikeRows(handler[r].userId, handler[r].postId) # {} =>
                /\ PostLookupReturns(r, TRUE) =>
                      handler'[r].pc = "findLike" /\ likes' = likes /\ writes' = writes
                /\ LikeLookupReturns(r, TRUE) =>
                      /\ sent'[r] = <<Response(400, [message |-> "already liked"])>>
                      /\ handler'[r].pc = "done"
                      /\ likes' = likes
                      /\ writes' = writes]_vars

\* C5 witness: one request was answered 200 with its like row, a later one
\* was answered 400, and the like table holds that single row.
C5_Witness ==
    \E r1 \in Reqs : \E r2 \in Reqs :
        /\ sent[r1] # <<>> /\ Status(r1) = 200
        /\ sent[r2] # <<>> /\ Status(r2) = 400
        /\ likes = {sent[r1][1].body}

\* C6: a request for a post id that is not in the post table, whose post
\* lookup the store answers, is answered 404 in that step, which adds no like
\* row and writes no frame; the handler has then returned, so it makes no
\* further store call and sends nothing more.
C6_MissingPostNotFound ==
    [][\A r \in Reqs :
          /\ (PostLookupReturns(r, TRUE) /\ handler[r].postId \notin 1..Len(posts)) =>
                /\ sent'[r] = <<Response(404, [message |-> "post not found"])>>
                /\ handler'[r].pc = "done"
                /\ likes' = likes
                /\ writes' = writes
          /\ handler[r].pc = "done" => (handler'[r] = handler[r] /\ sent'[r] = sent[r])]_vars

\* C6 witness: a request was answered 404.
C6_Witness ==
    \E r \in Reqs : sent[r] # <<>> /\ Status(r) = 404

\* C7: when the frame is written to a registered stream that is no longer
\* open (the write fails), the request is still answered 200 with the like row
\* it inserted.
C7_WriteFailureNotSurfaced ==
    [][\A r \in Reqs : \A e \in clients :
          (NotifyStep(r) /\ e.key = handler[r].post.authorId
              /\ conns[e.value].state # "open") =>
                /\ sent'[r] = <<Response(200, handler[r].like)>>
                /\ handler[r].like \in likes']_vars

\* C7 witness: a write was made to a stream that was no longer open and the
\* request that made it was answered 200.
C7_Witness ==
    \E i \in 1..Len(writes) :
        /\ ~writes[i].delivered
        /\ sent[writes[i].req] # <<>>
        /\ Status(writes[i].req) = 200

\* C8: when the author has no registry entry as the handler resumes after the
\* insert, that step writes no frame and answers 200 with the inserted like
\* row, which is in the like table.
C8_NoClientStillSucceeds ==
    [][\A r \in Reqs :
          (NotifyStep(r) /\ ~MapHas(clients, handler[r].post.authorId)) =>
                /\ writes' = writes
                /\ sent'[r] = <<Response(200, handler[r].like)>>
                /\ handler[r].like \in likes']_vars

\* C8 witness: a request was answered 200 with its like row, no stream was
\* ever opened and no frame was written.
C8_Witness ==
    \E r \in Reqs :
        /\ sent[r] # <<>>
        /\ Status(r) = 200
        /\ sent[r][1].body \in likes
        /\ conns = <<>>
        /\ writes = <<>>

\* C9: no write is ever made to a stream whose close listener has run; and
\* when the author's most recent stream has had its close handled, the
\* notification step writes nothing and answers 200.
C9_NoWriteAfterCloseHandled ==
    [][/\ writes' # writes => conns[NewWrite.conn].state # "handled"
       /\ \A r \in Reqs :
            (NotifyStep(r) /\ LatestStream(handler[r].post.authorId) # None
                /\ conns[LatestStream(handler[r].post.authorId)].state = "handled") =>
                    /\ writes' = writes
                    /\ Status(r)' = 200]_vars

\* C9 witness: the only stream was the author's, its close has been handled,
\* and a like of the author's post was answered 200 without any write.
C9_Witness ==
    \E r \in Reqs :
        /\ sent[r] # <<>>
        /\ Status(r) = 200
        /\ Len(conns) = 1
        /\ conns[1].state = "handled"
        /\ conns[1].userId = posts[sent[r][1].body.postId].authorId
        /\ writes = <<>>

\* C10: right after a stream is opened for U the lookup of U returns that
\* stream; right after the close of a stream of U has been handled the lookup
\* of U returns not-found.
C10_RegisterLookupUnregister ==
    [][/\ Len(conns') = Len(conns) + 1 =>
            MapGet(clients', conns'[Len(conns')].userId) = Len(conns')
       /\ \A c \in Streams :
            CloseStep(c) => MapGet(clients', conns[c].userId) = None]_vars

\* C10 witness: one user's stream is open and looked up, another user's
\* stream has had its close handled and that user's lookup finds nothing.
C10_Witness ==
    \E c \in Streams : \E d \in Streams :
        /\ conns[c].state = "open"
        /\ MapGet(clients, conns[c].userId) = c
        /\ conns[d].state = "handled"
        /\ MapGet(clients, conns[d].userId) = None

\* a store step of request r: one of its three store calls settles
StoreStep(r) ==
    handler[r].pc \in {"findPost", "findLike", "create"} /\ handler'[r] # handler[r]

\* C11: between the existing-like check of a request and its insert, no other
\* request for the same (userId, postId) pair takes a store step.
C11_CheckAndInsertNotInterleaved ==
    [][\A r1 \in Reqs : \A r2 \in Reqs :
          (/\ r1 # r2
           /\ handler[r1].pc = "create"
           /\ handler[r2].userId = handler[r1].userId
           /\ handler[r2].postId = handler[r1].postId) => ~StoreStep(r2)]_vars

\* C12: a write to the stream registered for the author that fails (the
\* stream is no longer open) unregisters that stream in the same step.
C12_FailedWriteUnregisters ==
    [][\A r \in Reqs : \A e \in clients :
          (NotifyStep(r) /\ e.key = handler[r].post.authorId
              /\ conns[e.value].state # "open") => e \notin clients']_vars

\* stream c has an entry in the registry
Registered(c) == \E e \in clients : e.value = c

\* C13: the registry does not keep an entry for a stream whose transport has
\* closed: from some point on no closed stream is registered, and a stream
\* whose close has been handled is never registered.
C13_ClosedStreamEventuallyUnregistered ==
    /\ [](\A c \in Streams : conns[c].state = "handled" => ~Registered(c))
    /\ <>[](\A c \in Streams : conns[c].state # "open" => ~Registered(c))

\* C13 witness: a stream that carried a frame has had its close handled and
\* is no longer registered.
C13_Witness ==
    \E i \in 1..Len(writes) :
        conns[writes[i].conn].state = "handled" /\ ~Registered(writes[i].conn)

\* C19: a request is answered at most once, with 200, 404, 400 or 500, it is
\* answered exactly when its handler has returned, and from some point on
\* every request received has its one answer.
C19_AnsweredExactlyOnce ==
    /\ [](\A r \in Reqs :
            /\ Len(sent[r]) <= 1
            /\ \A i \in 1..Len(sent[r]) : sent[r][i].status \in {200, 404, 400, 500}
            /\ handler[r].pc = "done" <=> Len(sent[r]) = 1)
    /\ <>[](\A r \in Reqs : handler[r].pc # "idle" => Len(sent[r]) = 1)

\* C19 witness: three requests were answered, with 200, 400 and 500.
C19_Witness ==
    \E r1 \in Reqs : \E r2 \in Reqs : \E r3 \in Reqs :
        /\ sent[r1] # <<>> /\ Status(r1) = 200
        /\ sent[r2] # <<>> /\ Status(r2) = 400
        /\ sent[r3] # <<>> /\ Status(r3) = 500

\* the write calls of a log that were made on stream c, in their order
SameConn(w, c) == w.conn = c

OnConn(log, c) == SelectSeq(log, LAMBDA w : SameConn(w, c))

\* C14: every notification step that writes puts its one frame behind the
\* frames already written on that stream and leaves the frames of every
\* stream as they were; no request has two frames in the log, and no other
\* step touches the log.
C14_FramesInDispatchOrder ==
    [][/\ \A r \in Reqs :
            (NotifyStep(r) /\ writes' # writes) =>
                \E c \in Streams :
                    /\ Len(OnConn(writes', c)) = Len(OnConn(writes, c)) + 1
                    /\ SubSeq(OnConn(writes', c), 1, Len(OnConn(writes, c))) = OnConn(writes, c)
                    /\ OnConn(writes', c)[Len(OnConn(writes', c))].req = r
                    /\ \A d \in Streams : d # c => OnConn(writes', d) = OnConn(writes, d)
       /\ \A i \in 1..Len(writes') : \A j \in 1..Len(writes') :
            i # j => writes'[i].req # writes'[j].req
       /\ (\A r \in Reqs : ~NotifyStep(r)) => writes' = writes]_vars

\* C14 witness: two requests each wrote a frame on the same open stream.
C14_Witness ==
    \E i \in 1..Len(writes) : \E j \in 1..Len(writes) :
        /\ i < j
        /\ writes[i].conn = writes[j].conn
        /\ writes[i].delivered /\ writes[j].delivered

\* the entries of the registry under keys other than u
Others(m, u) == {e \in m : e.key # u}

\* C15: the registry changes only in a step that opens a stream or runs a
\* close listener; such a step for user U leaves the entries of all other
\* users as they were; a step of a like-creation handler leaves the registry
\* unchanged, whatever its outcome.
C15_RegistryFrame ==
    [][/\ clients' # clients =>
            (Len(conns') = Len(conns) + 1 \/ \E c \in Streams : CloseStep(c))
       /\ Len(conns') = Len(conns) + 1 =>
            Others(clients', conns'[Len(conns')].userId)
                = Others(clients, conns'[Len(conns')].userId)
       /\ \A c \in Streams :
            CloseStep(c) => Others(clients', conns[c].userId) = Others(clients, conns[c].userId)
       /\ \A r \in Reqs : handler'[r] # handler[r] => clients' = clients]_vars

\* C15 witness: a like-creation request has been answered, the stream of one
\* user has had its close handled and another user's stream is registered.
C15_Witness ==
    \E r \in Reqs : \E c \in Streams : \E e \in clients :
        /\ sent[r] # <<>>
        /\ conns[c].state = "handled"
        /\ e.key # conns[c].userId

\* C16: when the handler resumes after the insert and the stream most recently
\* opened for the post's author is still open, the frame is written to that
\* stream.
C16_LatestOpenStreamNotified ==
    [][\A r \in Reqs :
          (NotifyStep(r)
              /\ LatestStream(handler[r].post.authorId) # None
              /\ conns[LatestStream(handler[r].post.authorId)].state = "open") =>
                /\ OneWriteAppended
                /\ NewWrite.conn = LatestStream(handler[r].post.authorId)]_vars

\* C17: there are never more frames than like rows; every frame carries the
\* pair of the like row its own request inserted and was answered 200 with;
\* a request answered 404, 400 or 500 has written no frame.
C17_FrameOnlyAfterPersistedLike ==
    /\ Len(writes) <= Cardinality(likes)
    /\ \A i \in 1..Len(writes) :
          /\ Len(sent[writes[i].req]) = 1
          /\ sent[writes[i].req][1].status = 200
          /\ sent[writes[i].req][1].body \in likes
          /\ sent[writes[i].req][1].body.userId = writes[i].frame.userId
          /\ sent[writes[i].req][1].body.postId = writes[i].frame.postId
    /\ \A r \in Reqs :
          (sent[r] # <<>> /\ Status(r) \in {404, 400, 500}) =>
              \A i \in 1..Len(writes) : writes[i].req # r

\* C17 witness: one request wrote a frame and another was answered with an
\* error.
C17_Witness ==
    \E i \in 1..Len(writes) : \E r \in Reqs :
        /\ r # writes[i].req
        /\ sent[r] # <<>>
        /\ Status(r) \in {404, 400, 500}

\* C18: every frame is written to the stream that the registry, in the state
\* the writing step starts from, holds under the id of the author of the liked
\* post, and that stream was opened for that author.
C18_FrameToAuthorsEntry ==
    [][writes' # writes =>
          /\ [key |-> posts[handler[NewWrite.req].postId].authorId, value |-> NewWrite.conn]
                \in clients
          /\ conns[NewWrite.conn].userId = posts[handler[NewWrite.req].postId].authorId]_vars

\* C18 witness: a frame was written to the author's stream while a stream of
\* another user was registered too.
C18_Witness ==
    \E i \in 1..Len(writes) : \E e \in clients :
        /\ conns[writes[i].conn].userId = posts[writes[i].frame.postId].authorId
        /\ e.key # conns[writes[i].conn].userId
        /\ conns[e.value].state = "open"

====
